---- MODULE Spec2Model ----
(***************************************************************************)
(* Model of chaosk8s/pod/actions.py: the pod selection (_select_pods) and  *)
(* the two disruption actions built on it (terminate_pods and              *)
(* kill_main_process), as seen from the cluster boundary: every call of    *)
(* list_namespaced_pod, delete_namespaced_pod and create_namespaced_pod is *)
(* recorded, with its arguments, in the order the code issues it.          *)
(*                                                                         *)
(* Python values are modelled as follows.  A pod name and a name pattern   *)
(* are sequences of one-character strings (so that re.match can be         *)
(* computed); Str joins such a sequence into a string.  None is the string *)
(* "None" for string-valued fields; an optional integer is the set {} or   *)
(* the set {value}.  A value whose Python type matters (the local variable *)
(* `container`, which the code rebinds) is a record [type, value].         *)
(***************************************************************************)
EXTENDS Integers, Sequences, FiniteSets, TLC

\* Largest number of pods the cluster holds.
MaxPods == 3
\* Largest small quantity a caller passes (besides the percentages below).
MaxQty == 2

None == "None"

(***************************************************************************)
(* The pods the cluster may hold.  Names are unique, and every creation    *)
(* timestamp is shared by two pods, so that sorting meets ties.            *)
(***************************************************************************)
PodUniverse ==
    { [name |-> <<"w", "1">>, ns |-> "default", node_name |-> "n1",
       creation_timestamp |-> 2, label |-> "app=web"],
      [name |-> <<"w", "2">>, ns |-> "default", node_name |-> "n2",
       creation_timestamp |-> 1, label |-> "app=web"],
      [name |-> <<"d", "1">>, ns |-> "default", node_name |-> "n1",
       creation_timestamp |-> 1, label |-> "app=db"],
      [name |-> <<"d", "w">>, ns |-> "default", node_name |-> "n3",
       creation_timestamp |-> 2, label |-> "app=db"] }

\* The sequences without repetition over S of length at most n.
InjectiveSeqs(S, n) ==
    UNION { { s \in [1..k -> S] : \A a, b \in 1..k : a # b => s[a] # s[b] } :
            k \in 0..n }

Range(s) == { s[j] : j \in 1..Len(s) }

\* Values the callers pass.
Namespaces == {"default"}
LabelSelectors == {None, "app=web"}
NamePatterns == { <<>>, <<"w">>, <<".", "1">> }
Modes == {"fixed", "percentage", "random"}
Orders == {"alphabetic", "oldest", "newest"}
Quantities == (-1..MaxQty) \cup {34, 100}
GracePeriods == {-1, 0, 30}
Containers == {"*", "app"}
Signals == {"SIGTERM", "SIGKILL"}
PumbaImages == {"gaiaadm/pumba:master"}

Criteria ==
    [label_selector : LabelSelectors, name_pattern : NamePatterns,
     all : BOOLEAN, rand : BOOLEAN, mode : Modes, qty : Quantities,
     ns : Namespaces, order : Orders]

\* Python truthiness of an optional string (None and "" are false).
Truthy(s) == s # None /\ s # ""

RECURSIVE Str(_)
\* The string a sequence of characters stands for.
Str(cs) == IF cs = <<>> THEN "" ELSE Head(cs) \o Str(Tail(cs))

(***************************************************************************)
(* _select_pods                                                            *)
(***************************************************************************)

\* Mutant: the check of `order` is missing.
ValidCriteria_no_order(a) ==
    /\ ~(a.qty < 0)
    /\ a.mode \in {"fixed", "percentage"}

\* The three guards at the head of _select_pods; FALSE when one raises.
ValidCriteria(a) ==
    /\ ~(a.qty < 0)
    /\ a.mode \in {"fixed", "percentage"}
    /\ a.order \in {"alphabetic", "oldest"}

\* v1.list_namespaced_pod(ns[, label_selector]): the pods of the namespace,
\* in the cluster's order, that carry the label when one is given.
ListNamespacedPod(pool, ns, label_selector) ==
    LET keep(p) == /\ p.ns = ns
                   /\ (Truthy(label_selector) => p.label = label_selector)
    IN  SelectSeq(pool, keep)

\* pattern.match(name) for a pattern made of literal characters, "." (any
\* character) and a leading "^": the match is anchored at position 0 and
\* need not reach the end of the name.
ReMatch(pattern, name) ==
    LET p == IF pattern # <<>> /\ Head(pattern) = "^" THEN Tail(pattern)
             ELSE pattern
    IN  /\ Len(p) <= Len(name)
        /\ \A j \in 1..Len(p) : p[j] = "." \/ p[j] = name[j]

\* The name filter: every item when there is no pattern.
NameFilter(items, name_pattern) ==
    LET keep(p) == ReMatch(name_pattern, p.name)
    IN  IF name_pattern # <<>> THEN SelectSeq(items, keep) ELSE items

_sort_by_pod_creation_timestamp(pod) == pod.creation_timestamp

\* Mutant: an element goes before the elements of equal key (unstable).
InsertByKey_before_ties(s, p) ==
    LET at == Cardinality({ j \in 1..Len(s) :
                  _sort_by_pod_creation_timestamp(s[j])
                      < _sort_by_pod_creation_timestamp(p) })
    IN  SubSeq(s, 1, at) \o <<p>> \o SubSeq(s, at + 1, Len(s))

\* s with p inserted after the elements whose key is at most p's (s sorted).
InsertByKey(s, p) ==
    LET at == Cardinality({ j \in 1..Len(s) :
                  _sort_by_pod_creation_timestamp(s[j])
                      <= _sort_by_pod_creation_timestamp(p) })
    IN  SubSeq(s, 1, at) \o <<p>> \o SubSeq(s, at + 1, Len(s))

RECURSIVE SortPods(_)
\* pods.sort(key=_sort_by_pod_creation_timestamp): ascending and stable.
SortPods(s) ==
    IF s = <<>> THEN <<>>
    ELSE InsertByKey(SortPods(SubSeq(s, 1, Len(s) - 1)), s[Len(s)])

\* The candidates in the order the selection draws from.
OrderedPods(items, name_pattern, order) ==
    LET pods == NameFilter(items, name_pattern)
    IN  IF order = "oldest" THEN SortPods(pods) ELSE pods

\* math.ceil(a / b) for a >= 0 and b > 0.
Ceil(a, b) == (a + b - 1) \div b

Min(a, b) == IF a <= b THEN a ELSE b

\* Mutant: the percentage is truncated instead of rounded up.
ResolveQty_floor(qty, mode, n) ==
    Min(IF mode = "percentage" THEN (qty * n) \div 100 ELSE qty, n)

\* The quantity after the percentage conversion and the cap.
ResolveQty(qty, mode, n) ==
    Min(IF mode = "percentage" THEN Ceil(qty * n, 100) ELSE qty, n)

\* random.sample(pods, k): every sequence of k elements at distinct
\* positions of pods.
RandomSample(pods, k) ==
    { [j \in 1..k |-> pods[f[j]]] :
          f \in { g \in [1..k -> 1..Len(pods)] :
                     \A x, y \in 1..k : x # y => g[x] # g[y] } }

\* Mutant: `all` is not looked at.
Selections_ignore_all(a, items) ==
    LET pods == OrderedPods(items, a.name_pattern, a.order)
        qty  == ResolveQty(a.qty, a.mode, Len(pods))
    IN  IF a.rand THEN RandomSample(pods, qty) ELSE { SubSeq(pods, 1, qty) }

\* The lists _select_pods may return for the listed items.
Selections(a, items) ==
    LET pods == OrderedPods(items, a.name_pattern, a.order)
        qty  == ResolveQty(a.qty, a.mode, Len(pods))
    IN  IF ~a.all
        THEN IF a.rand THEN RandomSample(pods, qty)
             ELSE { SubSeq(pods, 1, qty) }
        ELSE { pods }

(***************************************************************************)
(* The state of one invocation and of the cluster it talks to.             *)
(***************************************************************************)
VARIABLES
    cluster,    \* the pods of the cluster, in the order a listing returns
    pc,         \* "idle", "deleting", "creating", "returned" or "raised"
    op,         \* the operation invoked
    params,     \* its arguments
    ret_items,  \* what list_namespaced_pod returned (ret.items)
    pods,       \* the list _select_pods returned (pods / pods_to_kill)
    body,       \* terminate_pods: the V1DeleteOptions
    i,          \* the number of loop iterations completed
    container,  \* kill_main_process: the current binding of `container`
    calls,      \* the cluster calls issued so far, in order
    error       \* the exception the invocation raised, or "none"

vars == <<cluster, pc, op, params, ret_items, pods, body, i, container,
          calls, error>>

NoParams ==
    [label_selector |-> None, name_pattern |-> <<>>, all |-> FALSE,
     rand |-> FALSE, mode |-> "fixed", qty |-> 1, ns |-> "default",
     order |-> "alphabetic", grace_period |-> -1, container |-> "*",
     signal |-> "SIGTERM", pumba_image |-> "gaiaadm/pumba:master"]

NoBody == [grace_period_seconds |-> {}]
NoContainer == [type |-> "str", value |-> None]

\* The parameters of a call: the criteria and the action's own arguments.
Params(a, grace_period, c, signal, pumba_image) ==
    [label_selector |-> a.label_selector, name_pattern |-> a.name_pattern,
     all |-> a.all, rand |-> a.rand, mode |-> a.mode, qty |-> a.qty,
     ns |-> a.ns, order |-> a.order, grace_period |-> grace_period,
     container |-> c, signal |-> signal, pumba_image |-> pumba_image]

Init ==
    /\ cluster \in InjectiveSeqs(PodUniverse, MaxPods)
    /\ pc = "idle"
    /\ op = "none"
    /\ params = NoParams
    /\ ret_items = <<>>
    /\ pods = <<>>
    /\ body = NoBody
    /\ i = 0
    /\ container = NoContainer
    /\ calls = <<>>
    /\ error = "none"

\* The record of the listing _select_pods issues.
ListCall(a, ok) ==
    [call |-> "list_namespaced_pod", ns |-> a.ns,
     label_selector |-> IF Truthy(a.label_selector) THEN a.label_selector
                        ELSE None,
     ok |-> ok]

\* _select_pods as the first step of an operation: it raises on invalid
\* criteria before any call, lists the pods (the call may fail) and
\* leaves its result in pods; `next` is where the caller continues.
SelectPods(a, next) ==
    IF ~ValidCriteria(a)
    THEN /\ pc' = "raised"
         /\ error' = "ActivityFailed"
         /\ UNCHANGED <<calls, ret_items, pods>>
    ELSE \E ok \in BOOLEAN :
            /\ calls' = Append(calls, ListCall(a, ok))
            /\ IF ok
               THEN /\ ret_items' =
                           ListNamespacedPod(cluster, a.ns, a.label_selector)
                    /\ pods' \in Selections(a, ret_items')
                    /\ pc' = next
                    /\ error' = "none"
               ELSE /\ pc' = "raised"
                    /\ error' = "ApiException"
                    /\ UNCHANGED <<ret_items, pods>>

\* selectUnits: _select_pods called on its own.
CallSelect ==
    /\ pc = "idle"
    /\ \E a \in Criteria :
          /\ op' = "select"
          /\ params' = Params(a, -1, "*", "SIGTERM", "gaiaadm/pumba:master")
          /\ SelectPods(a, "returned")
    /\ UNCHANGED <<cluster, body, i, container>>

(***************************************************************************)
(* terminate_pods                                                          *)
(***************************************************************************)

\* Mutant: a grace period of 0 is taken for "unset".
DeleteOptions_positive(grace_period) ==
    IF grace_period > 0 THEN [grace_period_seconds |-> {grace_period}]
    ELSE [grace_period_seconds |-> {}]

\* The V1DeleteOptions terminate_pods builds.
DeleteOptions(grace_period) ==
    IF grace_period >= 0 THEN [grace_period_seconds |-> {grace_period}]
    ELSE [grace_period_seconds |-> {}]

DeleteCall(p, ok) ==
    [call |-> "delete_namespaced_pod", name |-> Str(p.name),
     ns |-> params.ns, body |-> body, ok |-> ok]

\* The cluster without the pod of that name.
WithoutPod(pool, p) ==
    LET keep(q) == ~(q.name = p.name /\ q.ns = params.ns)
    IN  SelectSeq(pool, keep)

\* terminate_pods up to its loop.
CallTerminate ==
    /\ pc = "idle"
    /\ \E a \in Criteria, g \in GracePeriods :
          /\ op' = "terminate"
          /\ params' = Params(a, g, "*", "SIGTERM", "gaiaadm/pumba:master")
          /\ SelectPods(a, "deleting")
          /\ body' = IF pc' = "deleting" THEN DeleteOptions(g) ELSE NoBody
    /\ UNCHANGED <<cluster, i, container>>

\* One iteration of the loop: the deletion succeeds.
DeleteStep ==
    /\ pc = "deleting"
    /\ i < Len(pods)
    /\ calls' = Append(calls, DeleteCall(pods[i + 1], TRUE))
    /\ cluster' = WithoutPod(cluster, pods[i + 1])
    /\ i' = i + 1
    /\ UNCHANGED <<pc, op, params, ret_items, pods, body, container, error>>

\* Mutant: the exception is swallowed and the loop goes on.
DeleteFail_continue ==
    /\ pc = "deleting"
    /\ i < Len(pods)
    /\ calls' = Append(calls, DeleteCall(pods[i + 1], FALSE))
    /\ i' = i + 1
    /\ UNCHANGED <<cluster, pc, op, params, ret_items, pods, body,
                   container, error>>

\* One iteration of the loop: delete_namespaced_pod raises, and nothing
\* in terminate_pods catches it.
DeleteFail ==
    /\ pc = "deleting"
    /\ i < Len(pods)
    /\ calls' = Append(calls, DeleteCall(pods[i + 1], FALSE))
    /\ pc' = "raised"
    /\ error' = "ApiException"
    /\ UNCHANGED <<cluster, op, params, ret_items, pods, body, i,
                   container>>

\* The loop is over.
TerminateReturn ==
    /\ pc = "deleting"
    /\ i = Len(pods)
    /\ pc' = "returned"
    /\ UNCHANGED <<cluster, op, params, ret_items, pods, body, i,
                   container, calls, error>>

(***************************************************************************)
(* kill_main_process                                                       *)
(***************************************************************************)

\* str() of a Python value: a string is itself; a V1Container prints as
\* the dictionary of its fields (those that are None are left out here).
PyStr(v) ==
    IF v.type = "str" THEN v.value
    ELSE "{'image': '" \o params.pumba_image
         \o "', 'image_pull_policy': 'Always', 'name': '" \o v.value \o "'}"

\* client.V1Container(name=...), as a value of the local variable.
V1Container(name) == [type |-> "V1Container", value |-> name]

\* Mutant: the counter is not used in the name.
PumbaName_fixed(n) == "pumba-pod-" \o ToString(0)

\* "pumba-pod-%d" % (i,)
PumbaName(n) == "pumba-pod-" \o ToString(n)

\* The labels of the pumba pod; `c` is the binding of `container` when
\* the dictionary is built.
PumbaLabels(c, pod) ==
    [app |-> "pumba", com_gaiaadm_pumba |-> "true", container |-> c,
     pod |-> Str(pod.name), namespace |-> params.ns]

\* container.args; `c` is the binding of `container` when the pattern is
\* formatted, which is after line 89 rebinds it.
PumbaArgs(c, pod) ==
    <<"--log-level", "debug", "kill", "--signal", params.signal,
      "re2:^k8s_" \o PyStr(c) \o "_" \o Str(pod.name) \o "_" \o params.ns>>

\* The V1Pod handed to create_namespaced_pod for the n-th selected pod.
\* Line 88 sets node_name on the V1Pod itself; the V1PodSpec built at line
\* 108 is given containers, restart_policy and volumes only, so its
\* node_name keeps the constructor's None.
PumbaPod(n, pod) ==
    [metadata  |-> [name |-> PumbaName(n),
                    labels |-> PumbaLabels(container, pod)],
     node_name |-> pod.node_name,
     spec      |-> [containers |->
                        << [name |-> "pumba", image |-> params.pumba_image,
                            image_pull_policy |-> "Always",
                            args |-> PumbaArgs(V1Container("pumba"), pod)] >>,
                    restart_policy |-> "Never",
                    node_name |-> None,
                    volumes |-> << [name |-> "dockersocket",
                                    host_path |-> "/var/run/docker.sock"] >>]]

CreateCall(n, pod, ok) ==
    [call |-> "create_namespaced_pod", ns |-> params.ns,
     body |-> PumbaPod(n, pod), ok |-> ok]

\* kill_main_process up to its loop.
CallKill ==
    /\ pc = "idle"
    /\ \E a \in Criteria, c \in Containers, s \in Signals, im \in PumbaImages :
          /\ op' = "kill"
          /\ params' = Params(a, -1, c, s, im)
          /\ SelectPods(a, "creating")
          /\ container' = [type |-> "str", value |-> c]
    /\ UNCHANGED <<cluster, body, i>>

\* One iteration of the loop: the creation succeeds.
CreateStep ==
    /\ pc = "creating"
    /\ i < Len(pods)
    /\ calls' = Append(calls, CreateCall(i, pods[i + 1], TRUE))
    /\ container' = V1Container("pumba")
    /\ i' = i + 1
    /\ UNCHANGED <<cluster, pc, op, params, ret_items, pods, body, error>>

\* One iteration of the loop: create_namespaced_pod raises.
CreateFail ==
    /\ pc = "creating"
    /\ i < Len(pods)
    /\ calls' = Append(calls, CreateCall(i, pods[i + 1], FALSE))
    /\ container' = V1Container("pumba")
    /\ pc' = "raised"
    /\ error' = "ApiException"
    /\ UNCHANGED <<cluster, op, params, ret_items, pods, body, i>>

\* The loop is over.
KillReturn ==
    /\ pc = "creating"
    /\ i = Len(pods)
    /\ pc' = "returned"
    /\ UNCHANGED <<cluster, op, params, ret_items, pods, body, i,
                   container, calls, error>>

\* The caller has the result or the exception; nothing of the invocation
\* is kept for the next one.
Finish ==
    /\ pc \in {"returned", "raised"}
    /\ pc' = "idle"
    /\ op' = "none"
    /\ params' = NoParams
    /\ ret_items' = <<>>
    /\ pods' = <<>>
    /\ body' = NoBody
    /\ i' = 0
    /\ container' = NoContainer
    /\ calls' = <<>>
    /\ error' = "none"
    /\ UNCHANGED cluster

Next ==
    \/ CallSelect
    \/ CallTerminate \/ DeleteStep \/ DeleteFail \/ TerminateReturn
    \/ CallKill \/ CreateStep \/ CreateFail \/ KillReturn
    \/ Finish

Spec == Init /\ [][Next]_vars

\* The three operations on their own.
NextSelect == CallSelect \/ Finish
SpecSelect == Init /\ [][NextSelect]_vars

NextTerminate ==
    CallTerminate \/ DeleteStep \/ DeleteFail \/ TerminateReturn \/ Finish
SpecTerminate == Init /\ [][NextTerminate]_vars

NextKill == CallKill \/ CreateStep \/ CreateFail \/ KillReturn \/ Finish
SpecKill == Init /\ [][NextKill]_vars

(***************************************************************************)
(* Terms of the properties                                                 *)
(***************************************************************************)

\* _select_pods has returned a list to its caller.
Selected == pc \in {"deleting", "creating", "returned"}

\* The criteria the validator must reject.
InvalidCriteria ==
    \/ params.qty < 0
    \/ params.mode \notin {"fixed", "percentage"}
    \/ params.order \notin {"alphabetic", "oldest"}

\* The listed pods that pass the name filter.
Candidates ==
    { p \in Range(ret_items) :
        params.name_pattern = <<>> \/ ReMatch(params.name_pattern, p.name) }

\* The position of a listed pod in the listing.
FetchIndex(p) == CHOOSE j \in 1..Len(ret_items) : ret_items[j] = p

\* The least integer c with c >= qty * n / 100.
PercentOf(qty, n) ==
    CHOOSE c \in 0..(qty * n) :
        /\ 100 * c >= qty * n
        /\ \A d \in 0..(qty * n) : 100 * d >= qty * n => c <= d

\* The resolved quantity of section 4.4 for the current call.
ExpectedQuantity ==
    LET n == Cardinality(Candidates)
        q == IF params.mode = "fixed" THEN params.qty
             ELSE PercentOf(params.qty, n)
    IN  IF q <= n THEN q ELSE n

\* p comes before q in the ordered sequence of section 4.3.
Before(p, q) ==
    IF params.order = "oldest"
    THEN \/ p.creation_timestamp < q.creation_timestamp
         \/ /\ p.creation_timestamp = q.creation_timestamp
            /\ FetchIndex(p) < FetchIndex(q)
    ELSE FetchIndex(p) < FetchIndex(q)

\* The calls after the listing: the requests of the dispatch loop.
Requests == SubSeq(calls, 2, Len(calls))

(***************************************************************************)
(* Properties                                                              *)
(***************************************************************************)

\* C1: whenever quantity < 0, or mode is not fixed/percentage, or order is
\* not alphabetic/oldest, each of the three operations fails with the
\* validation error (ActivityFailed in the code), whatever the other
\* parameters are, and no cluster call has been issued.
C1_InvalidCriteriaFailBeforeAnyCall ==
    (op \in {"select", "terminate", "kill"} /\ InvalidCriteria)
        => /\ pc = "raised"
           /\ error = "ActivityFailed"
           /\ calls = <<>>

C1_Witness ==
    /\ op = "terminate"
    /\ params.all
    /\ params.order = "newest"
    /\ params.qty >= 0
    /\ params.mode = "fixed"
    /\ Len(cluster) > 0
    /\ pc = "raised"

\* C2: with all=false, selectUnits returns exactly k pairwise-distinct
\* units, each a name-filtered candidate, where k = min(quantity, n) for
\* mode=fixed and k = min(ceil(quantity*n/100), n) for mode=percentage,
\* for random=true and random=false alike.
C2_ExactlyResolvedQuantity ==
    (op = "select" /\ pc = "returned" /\ ~params.all)
        => /\ Len(pods) = ExpectedQuantity
           /\ Len(pods) <= Cardinality(Candidates)
           /\ \A a, b \in 1..Len(pods) : a # b => pods[a] # pods[b]
           /\ Range(pods) \subseteq Candidates

C2_Witness ==
    /\ op = "select"
    /\ pc = "returned"
    /\ ~params.all
    /\ params.rand
    /\ params.mode = "percentage"
    /\ params.qty = 34
    /\ params.name_pattern # <<>>
    /\ Len(ret_items) = 3
    /\ Cardinality(Candidates) = 2
    /\ Len(pods) = 1

\* C3: with all=true, selectUnits returns every name-filtered candidate,
\* each exactly once, whatever quantity, mode and random are.
C3_AllReturnsEveryCandidate ==
    (op = "select" /\ pc = "returned" /\ params.all)
        => /\ Range(pods) = Candidates
           /\ Len(pods) = Cardinality(Candidates)

C3_Witness ==
    /\ op = "select"
    /\ pc = "returned"
    /\ params.all
    /\ params.rand
    /\ params.qty = 0
    /\ params.mode = "percentage"
    /\ params.name_pattern # <<>>
    /\ Len(pods) = 2
    /\ Len(ret_items) = 3

\* C4: with all=false and random=false, selectUnits returns the first k
\* elements of the ordered sequence: the name-filtered candidates in fetch
\* order for order=alphabetic, and sorted non-decreasing by
\* creationTimestamp with ties in fetch order for order=oldest.  The
\* result is a function of the pool and the criteria.
C4_DeterministicPrefix ==
    (op = "select" /\ pc = "returned" /\ ~params.all /\ ~params.rand)
        => /\ Len(pods) = ExpectedQuantity
           /\ Range(pods) \subseteq Candidates
           /\ \A a, b \in 1..Len(pods) : a < b => Before(pods[a], pods[b])
           /\ \A p \in Range(pods) :
                 \A q \in Candidates \ Range(pods) : Before(p, q)

C4_Witness ==
    /\ op = "select"
    /\ pc = "returned"
    /\ ~params.all
    /\ ~params.rand
    /\ params.order = "oldest"
    /\ Len(pods) = 2
    /\ Cardinality(Candidates) = 3
    /\ pods[1].creation_timestamp = pods[2].creation_timestamp
    /\ ret_items[1] \notin Range(pods)

\* C5: when no cluster call fails, terminateUnits issues exactly one
\* deleteUnit request per selected unit, in selection order, and no other;
\* each carries the grace period g when gracePeriod = g >= 0 and no
\* explicit grace period when gracePeriod is negative.
C5_OneDeletePerSelectedUnit ==
    (op = "terminate" /\ pc \in {"deleting", "returned"})
        => /\ Len(Requests) = i
           /\ pc = "returned" => i = Len(pods)
           /\ \A j \in 1..Len(Requests) :
                 /\ Requests[j].call = "delete_namespaced_pod"
                 /\ Requests[j].name = Str(pods[j].name)
                 /\ Requests[j].ns = params.ns
                 /\ Requests[j].body.grace_period_seconds =
                       IF params.grace_period >= 0
                       THEN {params.grace_period} ELSE {}

C5_Witness ==
    /\ op = "terminate"
    /\ pc = "returned"
    /\ params.grace_period = 0
    /\ Len(pods) = 2
    /\ Len(ret_items) = 3
    /\ Len(Requests) = 2
    /\ Requests[2].body.grace_period_seconds = {0}

\* C6: when no cluster call fails, killMainProcess with m selected units
\* issues exactly m createUnit requests, one per selected unit in
\* selection order, and the m companion names are pairwise distinct.
C6_OneCompanionPerSelectedUnit ==
    (op = "kill" /\ pc \in {"creating", "returned"})
        => /\ Len(Requests) = i
           /\ pc = "returned" => i = Len(pods)
           /\ \A j \in 1..Len(Requests) :
                 /\ Requests[j].call = "create_namespaced_pod"
                 /\ Requests[j].ns = params.ns
                 /\ Requests[j].body.metadata.labels.pod = Str(pods[j].name)
           /\ \A a, b \in 1..Len(Requests) :
                 a # b => Requests[a].body.metadata.name
                              # Requests[b].body.metadata.name

C6_Witness ==
    /\ op = "kill"
    /\ pc = "returned"
    /\ Len(pods) = 3
    /\ Len(Requests) = 3
    /\ Requests[3].ok

\* C7: every companion unit submitted to createUnit is scheduled on its
\* target's node: the pod specification of the request carries the target
\* unit's nodeName as its node assignment.
C7_CompanionOnTargetNode ==
    op = "kill"
        => \A j \in 1..Len(Requests) :
              Requests[j].body.spec.node_name = pods[j].node_name

\* C8: the agent command of the companion of unit u targets the pattern
\* k8s_<c>_<u.name>_<ns>, c being the caller-configured container value,
\* and sends the configured signal.
C8_AgentCommandTargetsContainer ==
    op = "kill"
        => \A j \in 1..Len(Requests) :
              LET args == Requests[j].body.spec.containers[1].args
              IN  /\ args[5] = params.signal
                  /\ args[6] = "re2:^k8s_" \o params.container \o "_"
                                 \o Str(pods[j].name) \o "_" \o params.ns

\* C9: the labels of every companion unit, the first and every later one,
\* name the target unit, the caller-configured container value and the
\* namespace.
C9_LabelsIdentifyTarget ==
    op = "kill"
        => \A j \in 1..Len(Requests) :
              LET labels == Requests[j].body.metadata.labels
              IN  /\ labels.pod = Str(pods[j].name)
                  /\ labels.container =
                         [type |-> "str", value |-> params.container]
                  /\ labels.namespace = params.ns

\* C10: if the deleteUnit request for the i-th selected unit fails, the
\* error reaches the caller, the request is not repeated, no request is
\* issued for a later unit, and the earlier deletions stand.
C10_AbortOnFirstDeleteError ==
    op = "terminate"
        => \A j \in 1..Len(Requests) :
              ~Requests[j].ok
                  => /\ pc = "raised"
                     /\ error = "ApiException"
                     /\ j = Len(Requests)
                     /\ \A k \in 1..j :
                           /\ Requests[k].call = "delete_namespaced_pod"
                           /\ Requests[k].name = Str(pods[k].name)
                     /\ \A k \in 1..(j - 1) :
                           /\ Requests[k].ok
                           /\ pods[k] \notin Range(cluster)

C10_Witness ==
    /\ op = "terminate"
    /\ pc = "raised"
    /\ Len(pods) = 3
    /\ Len(Requests) = 2
    /\ Requests[1].ok
    /\ ~Requests[2].ok
    /\ pods[3] \in Range(cluster)

====
